---- MODULE Spec2Model ----
(***************************************************************************)
(* webplate: the application factory create_app (app/__init__.py) and the  *)
(* views blueprint (app/views.py), over the parts of the filesystem they   *)
(* touch: the instance folder, config.py inside it, the index template     *)
(* and the static folder.                                                  *)
(*                                                                         *)
(* Strings the code inspects are sequences: a configuration key is the     *)
(* sequence of its characters (str.isupper looks at them), a filesystem    *)
(* path or URL path is the sequence of its segments, a rendered body is    *)
(* the sequence of its non-empty chunks.  An optional value (Python None   *)
(* or a value) is a set of at most one element.                            *)
(***************************************************************************)
EXTENDS Integers, Sequences, FiniteSets, TLC

VARIABLES
  fs,           \* the filesystem
  pc,           \* where the call of create_app in progress stands
  test_config,  \* the argument of the latest call
  app,          \* create_app's local variable app
  opened,       \* the files the latest call tried to open
  fs_at_call,   \* the filesystem as the latest call found it
  history,      \* how each finished call ended
  result,       \* what the latest finished call handed to its caller
  response,     \* the latest response of the application in result
  requests      \* how many requests that application has answered

vars == <<fs, pc, test_config, app, opened, fs_at_call, history, result,
          response, requests>>

(* ------------------------------ bounds ------------------------------- *)

MaxCalls == 2

MaxRequests == 2

(* ------------------------- optional values --------------------------- *)

None == {}

Some(v) == {v}

The(s) == CHOOSE v \in s : TRUE

(* ------------------------- configuration keys ------------------------ *)

UpperChars ==
  {"A", "B", "C", "D", "E", "F", "G", "H", "I", "J", "K", "L", "M",
   "N", "O", "P", "Q", "R", "S", "T", "U", "V", "W", "X", "Y", "Z"}

LowerChars ==
  {"a", "b", "c", "d", "e", "f", "g", "h", "i", "j", "k", "l", "m",
   "n", "o", "p", "q", "r", "s", "t", "u", "v", "w", "x", "y", "z"}

\* str.isupper: no lowercase character and at least one uppercase one.
isupper(k) ==
  /\ \E i \in 1..Len(k) : k[i] \in UpperChars
  /\ \A i \in 1..Len(k) : k[i] \notin LowerChars

DATABASE == <<"D", "A", "T", "A", "B", "A", "S", "E">>

TESTING == <<"T", "E", "S", "T", "I", "N", "G">>

\* a key a caller may supply that is not upper case
database == <<"d", "a", "t", "a", "b", "a", "s", "e">>

Keys == {DATABASE, TESTING, database}

PyTrue == <<"True">>

PyFalse == <<"False">>

\* the values a caller or a config.py may give each key
ValuesOf(k) ==
  IF k = DATABASE THEN {<<"x">>, <<"y">>}
  ELSE IF k = TESTING THEN {PyTrue}
  ELSE {<<"z">>}

\* every mapping of some of the keys to values
Mappings ==
  UNION {{m \in [D -> UNION {ValuesOf(k) : k \in Keys}] :
            \A k \in D : m[k] \in ValuesOf(k)} : D \in SUBSET Keys}

(* ----------------------------- filesystem ---------------------------- *)

instance_path == <<"instance">>

PathJoin(p, name) == Append(p, name)

NoError == "none"

AbsentFile == [kind |-> "absent", vars |-> <<>>]

ConfigFiles ==
  {AbsentFile, [kind |-> "malformed", vars |-> <<>>]}
    \cup {[kind |-> "valid", vars |-> m] : m \in Mappings}

\* a template is a sequence of literal text, {{ variable }} and {# comment #}
Text == [kind |-> "text", value |-> "<h1>webplate</h1>"]

Var == [kind |-> "var", value |-> "title"]

Comment == [kind |-> "comment", value |-> "note"]

\* views/index.html as shipped holds markup
IndexTemplates == {<<Text>>, <<Comment, Text>>, <<Text, Var, Text>>}

StaticNames == {"style.css"}

FileSystems ==
  {f \in [parent : {"absent", "readonly", "writable"},
          instance : {"absent", "dir", "file"},
          configpy : ConfigFiles,
          template : {None} \cup {Some(t) : t \in IndexTemplates},
          static : SUBSET StaticNames] :
     /\ f.parent = "absent" => f.instance = "absent"
     /\ f.configpy.kind # "absent" => f.instance = "dir"}

\* the file <instance_path>/config.py as open() finds it
ConfigFile(f) == IF f.instance = "dir" THEN f.configpy ELSE AbsentFile

(* --------------------------- flask.Config ---------------------------- *)

\* from_mapping that keeps a key already set (setdefault for assignment)
from_mapping_keep(config, mapping) ==
  LET set == {k \in DOMAIN mapping : isupper(k)}
  IN  [k \in DOMAIN config \cup set |->
         IF k \in DOMAIN config THEN config[k] ELSE mapping[k]]

\* Config.from_mapping: every upper-case key of the mapping is assigned
from_mapping(config, mapping) ==
  LET set == {k \in DOMAIN mapping : isupper(k)}
  IN  [k \in DOMAIN config \cup set |->
         IF k \in set THEN mapping[k] ELSE config[k]]

\* from_object that keeps a key already set
from_object_keep(config, obj) ==
  LET set == {k \in DOMAIN obj : isupper(k)}
  IN  [k \in DOMAIN config \cup set |->
         IF k \in DOMAIN config THEN config[k] ELSE obj[k]]

\* Config.from_object: every upper-case attribute of the object is assigned
from_object(config, obj) ==
  LET set == {k \in DOMAIN obj : isupper(k)}
  IN  [k \in DOMAIN config \cup set |->
         IF k \in set THEN obj[k] ELSE config[k]]

\* from_pyfile that ignores silent: a missing file is an error
from_pyfile_strict(config, file, silent) ==
  CASE file.kind = "absent" ->
         [config |-> config, error |-> "FileNotFoundError"]
    [] file.kind = "malformed" ->
         [config |-> config, error |-> "SyntaxError"]
    [] OTHER ->
         [config |-> from_object(config, file.vars), error |-> NoError]

\* from_pyfile whose silent also swallows a file that does not compile
from_pyfile_swallow(config, file, silent) ==
  CASE file.kind = "valid" ->
         [config |-> from_object(config, file.vars), error |-> NoError]
    [] OTHER ->
         IF silent THEN [config |-> config, error |-> NoError]
         ELSE [config |-> config, error |-> "FileNotFoundError"]

\* Config.from_pyfile: a missing file is skipped when silent, the file is
\* compiled and executed, then from_object on the resulting module
from_pyfile(config, file, silent) ==
  CASE file.kind = "absent" ->
         IF silent THEN [config |-> config, error |-> NoError]
         ELSE [config |-> config, error |-> "FileNotFoundError"]
    [] file.kind = "malformed" ->
         [config |-> config, error |-> "SyntaxError"]
    [] OTHER ->
         [config |-> from_object(config, file.vars), error |-> NoError]

\* mkdir without exist_ok: an existing directory is an error
mkdir_exclusive(f, exist_ok) ==
  CASE f.instance # "absent" -> [fs |-> f, error |-> "FileExistsError"]
    [] f.parent = "absent" -> [fs |-> f, error |-> "FileNotFoundError"]
    [] f.parent = "readonly" -> [fs |-> f, error |-> "PermissionError"]
    [] OTHER -> [fs |-> [f EXCEPT !.instance = "dir"], error |-> NoError]

\* the directory step left out: nothing is created, nothing fails
mkdir_skipped(f, exist_ok) == [fs |-> f, error |-> NoError]

\* Path.mkdir(parents=False, exist_ok)
mkdir(f, exist_ok) ==
  CASE f.instance = "dir" ->
         IF exist_ok THEN [fs |-> f, error |-> NoError]
         ELSE [fs |-> f, error |-> "FileExistsError"]
    [] f.instance = "file" -> [fs |-> f, error |-> "FileExistsError"]
    [] f.parent = "absent" -> [fs |-> f, error |-> "FileNotFoundError"]
    [] f.parent = "readonly" -> [fs |-> f, error |-> "PermissionError"]
    [] OTHER -> [fs |-> [f EXCEPT !.instance = "dir"], error |-> NoError]

MkdirErrors == {"FileExistsError", "FileNotFoundError", "PermissionError"}

(* ------------------------------ routing ------------------------------ *)

\* Flask(__name__): the static folder defaults to "static", which adds the
\* rule /static/<path:filename>
StaticRule ==
  [prefix |-> <<"static">>, converter |-> "path", endpoint |-> "static"]

\* a blueprint with a second route, /about
bp_two_routes ==
  {[prefix |-> <<>>, converter |-> "none", endpoint |-> "views.index"],
   [prefix |-> <<"about">>, converter |-> "none", endpoint |-> "views.index"]}

\* @bp.route("/", methods=["GET"]) on Blueprint("views", ...)
bp ==
  {[prefix |-> <<>>, converter |-> "none", endpoint |-> "views.index"]}

DefaultDatabase == PathJoin(instance_path, "dataset.parquet")

\* Flask(__name__, instance_relative_config=True)
Flask ==
  [config |-> (TESTING :> PyFalse), rules |-> {StaticRule}]

\* app.register_blueprint(views.bp)
register_blueprint(a, blueprint) ==
  [a EXCEPT !.rules = a.rules \cup blueprint]

Match(rule, path) ==
  IF rule.converter = "path"
  THEN /\ Len(path) > Len(rule.prefix)
       /\ SubSeq(path, 1, Len(rule.prefix)) = rule.prefix
  ELSE path = rule.prefix

\* jinja rendering: literal text is emitted, an undefined variable renders
\* as the empty string, a comment renders as nothing
RECURSIVE Render(_, _)
Render(t, context) ==
  IF t = <<>> THEN <<>>
  ELSE LET tok == Head(t)
           out == CASE tok.kind = "text" -> <<tok.value>>
                    [] tok.kind = "var" ->
                         IF tok.value \in DOMAIN context
                         THEN <<context[tok.value]>> ELSE <<>>
                    [] OTHER -> <<>>
       IN  out \o Render(Tail(t), context)

TemplateName == <<"views", "index.html">>

\* flask.render_template(name, **context): the template search path holds
\* views/index.html or nothing
render_template(f, name, context) ==
  IF name = TemplateName /\ f.template # None
  THEN [error |-> NoError, body |-> Render(The(f.template), context)]
  ELSE [error |-> "TemplateNotFound", body |-> <<>>]

\* index asking for index.html instead of views/index.html
index_other_name(f) == render_template(f, <<"index.html">>, <<>>)

\* index catching the rendering error and answering with an empty page
index_catching(f) ==
  LET v == render_template(f, TemplateName, <<>>)
  IN  IF v.error = NoError THEN v ELSE [error |-> NoError, body |-> <<>>]

\* views.index
index(f) == render_template(f, TemplateName, <<>>)

\* Flask.send_static_file
send_static_file(f, filename) ==
  IF Len(filename) = 1 /\ filename[1] \in f.static
  THEN [status |-> 200, body |-> <<"file", filename[1]>>]
  ELSE [status |-> 404, body |-> <<"Not Found">>]

\* Flask.handle_exception: under TESTING the exception is re-raised to the
\* server runtime, otherwise it becomes an InternalServerError response;
\* either way the client is answered with status 500
handle_exception(a, base, e) ==
  [base EXCEPT !.status = 500,
               !.body = <<"Internal Server Error">>,
               !.error = e,
               !.propagated = (a.config[TESTING] = PyTrue)]

\* Flask.wsgi_app for a GET request: match, dispatch, handle errors
Respond(a, f, path) ==
  LET hits == {r \in a.rules : Match(r, path)}
      base == [path |-> path, endpoint |-> "", status |-> 404,
               body |-> <<"Not Found">>, error |-> NoError,
               propagated |-> FALSE]
  IN  IF hits = {} THEN base
      ELSE LET r == The(hits)
               at == [base EXCEPT !.endpoint = r.endpoint]
           IN  IF r.endpoint = "static"
               THEN LET s == send_static_file(f, SubSeq(path, 2, Len(path)))
                    IN  [at EXCEPT !.status = s.status, !.body = s.body]
               ELSE LET v == index(f)
                    IN  IF v.error = NoError
                        THEN [at EXCEPT !.status = 200, !.body = v.body]
                        ELSE handle_exception(a, at, v.error)

\* the paths a client asks for
Paths ==
  {<<>>, <<"about">>, <<"static">>, <<"static", "style.css">>,
   <<"static", "missing.css">>}

(* ------------------------------ actions ------------------------------ *)

Init ==
  /\ fs \in FileSystems
  /\ pc = "idle"
  /\ test_config = None
  /\ app = None
  /\ opened = {}
  /\ fs_at_call = fs
  /\ history = <<>>
  /\ result = None
  /\ response = None
  /\ requests = 0

\* an exception leaves create_app: the caller gets no application
Raise(e) ==
  /\ history' = Append(history, [outcome |-> "raised", error |-> e,
                                 stage |-> pc, created |-> FALSE])
  /\ result' = None
  /\ app' = None
  /\ pc' = "idle"

\* create_app(test_config), lines 7-14: construct the app, set the default.
\* The caller lets go of the application of the call before.
Call(tc) ==
  /\ pc = "idle"
  /\ Len(history) < MaxCalls
  /\ test_config' = tc
  /\ app' = Some([Flask EXCEPT
                    !.config = from_mapping(@, DATABASE :> DefaultDatabase)])
  /\ opened' = {}
  /\ fs_at_call' = fs
  /\ result' = None
  /\ response' = None
  /\ requests' = 0
  /\ pc' = "config"
  /\ UNCHANGED <<fs, history>>

\* lines 16-21 without the branch: config.py is loaded, then test_config
LoadConfigFileFirst ==
  /\ pc = "config"
  /\ LET r == from_pyfile(The(app).config, ConfigFile(fs), TRUE)
         c == IF test_config = None THEN r.config
              ELSE from_mapping(r.config, The(test_config))
     IN  /\ opened' = opened \cup {PathJoin(instance_path, "config.py")}
         /\ IF r.error = NoError
            THEN /\ app' = Some([The(app) EXCEPT !.config = c])
                 /\ pc' = "register"
                 /\ UNCHANGED <<history, result>>
            ELSE Raise(r.error)
  /\ UNCHANGED <<fs, test_config, fs_at_call, response, requests>>

\* lines 16-21
LoadConfig ==
  /\ pc = "config"
  /\ IF test_config = None
     THEN LET r == from_pyfile(The(app).config, ConfigFile(fs), TRUE)
          IN  /\ opened' = opened \cup {PathJoin(instance_path, "config.py")}
              /\ IF r.error = NoError
                 THEN /\ app' = Some([The(app) EXCEPT !.config = r.config])
                      /\ pc' = "register"
                      /\ UNCHANGED <<history, result>>
                 ELSE Raise(r.error)
     ELSE /\ app' = Some([The(app) EXCEPT
                            !.config = from_mapping(@, The(test_config))])
          /\ pc' = "register"
          /\ UNCHANGED <<opened, history, result>>
  /\ UNCHANGED <<fs, test_config, fs_at_call, response, requests>>

\* lines 23-26
RegisterBlueprint ==
  /\ pc = "register"
  /\ app' = Some(register_blueprint(The(app), bp))
  /\ pc' = "mkdir"
  /\ UNCHANGED <<fs, test_config, opened, fs_at_call, history, result,
                 response, requests>>

\* lines 28-29
EnsureInstanceFolder ==
  /\ pc = "mkdir"
  /\ LET r == mkdir(fs, TRUE)
     IN  IF r.error = NoError
         THEN /\ fs' = r.fs
              /\ pc' = "return"
              /\ UNCHANGED <<app, history, result>>
         ELSE /\ Raise(r.error)
              /\ UNCHANGED fs
  /\ UNCHANGED <<test_config, opened, fs_at_call, response, requests>>

\* line 31
Return ==
  /\ pc = "return"
  /\ history' = Append(history,
                       [outcome |-> "returned", error |-> NoError,
                        stage |-> pc, created |-> (fs_at_call.instance # "dir")])
  /\ result' = app
  /\ app' = None
  /\ pc' = "idle"
  /\ UNCHANGED <<fs, test_config, opened, fs_at_call, response, requests>>

\* the server runtime hands a GET request to the application it was given
Request(path) ==
  /\ pc = "idle"
  /\ result # None
  /\ requests < MaxRequests
  /\ response' = Some(Respond(The(result), fs, path))
  /\ requests' = requests + 1
  /\ UNCHANGED <<fs, pc, test_config, app, opened, fs_at_call, history,
                 result>>

Arguments == {None} \cup {Some(m) : m \in Mappings}

Next ==
  \/ \E tc \in Arguments : Call(tc)
  \/ LoadConfig
  \/ RegisterBlueprint
  \/ EnsureInstanceFolder
  \/ Return
  \/ \E path \in Paths : Request(path)

Spec == Init /\ [][Next]_vars

(* ------------------------------ claims ------------------------------- *)

Last == history[Len(history)]

\* a call of create_app has finished and none is in progress
Finished == pc = "idle" /\ history # <<>>

\* C1: when test_config maps DATABASE to x, the returned application's
\* configuration has DATABASE equal to x, not the default path.
C1_TestConfigDatabaseWins ==
  (result # None /\ test_config # None
     /\ DATABASE \in DOMAIN The(test_config))
    => /\ The(result).config[DATABASE] = The(test_config)[DATABASE]
       /\ The(result).config[DATABASE] # <<"instance", "dataset.parquet">>

C1_Witness ==
  /\ result # None
  /\ test_config # None
  /\ DATABASE \in DOMAIN The(test_config)
  /\ ConfigFile(fs_at_call).kind = "valid"

\* C2: with no test_config and no config.py the missing file is skipped
\* without error (the call can only fail at the directory step, and returns
\* when that step succeeds) and DATABASE is <instance_dir>/dataset.parquet.
C2_MissingConfigSkipped ==
  (Finished /\ test_config = None /\ ConfigFile(fs_at_call).kind = "absent")
    => /\ Last.outcome = "raised" => Last.stage = "mkdir"
       /\ (fs_at_call.instance = "dir"
             \/ (fs_at_call.instance = "absent"
                   /\ fs_at_call.parent = "writable")) => result # None
       /\ result # None =>
            The(result).config[DATABASE] = <<"instance", "dataset.parquet">>

C2_Witness ==
  /\ result # None
  /\ test_config = None
  /\ fs_at_call.instance = "absent"
  /\ PathJoin(instance_path, "config.py") \in opened

\* C3: with a test_config, config.py is never opened, the call never fails
\* at the configuration step, and the configuration is the defaults
\* overlaid by the upper-case keys of test_config, whatever config.py holds.
C3_TestConfigBypassesFile ==
  test_config # None =>
    LET m == The(test_config)
        defaults == (DATABASE :> <<"instance", "dataset.parquet">>)
                      @@ (TESTING :> <<"False">>)
        overlaid(c) ==
          /\ DOMAIN c = {DATABASE, TESTING}
          /\ \A k \in DOMAIN c :
               c[k] = IF k \in DOMAIN m THEN m[k] ELSE defaults[k]
    IN  /\ opened = {}
        /\ pc \in {"register", "mkdir", "return"} => overlaid(The(app).config)
        /\ result # None => overlaid(The(result).config)
        /\ (Finished /\ Last.outcome = "raised") => Last.stage = "mkdir"

C3_Witness ==
  /\ result # None
  /\ test_config # None
  /\ DATABASE \notin DOMAIN The(test_config)
  /\ fs_at_call.configpy.kind = "valid"
  /\ DATABASE \in DOMAIN fs_at_call.configpy.vars

\* C4: with no test_config and a config.py that assigns DATABASE, the call
\* returns an application whose DATABASE is the value from config.py.
C4_ConfigFileOverridesDefault ==
  (Finished /\ test_config = None /\ fs_at_call.instance = "dir"
     /\ fs_at_call.configpy.kind = "valid"
     /\ DATABASE \in DOMAIN fs_at_call.configpy.vars)
    => /\ result # None
       /\ The(result).config[DATABASE] = fs_at_call.configpy.vars[DATABASE]
       /\ The(result).config[DATABASE] # <<"instance", "dataset.parquet">>

C4_Witness ==
  /\ result # None
  /\ test_config = None
  /\ fs_at_call.configpy.kind = "valid"
  /\ DATABASE \in DOMAIN fs_at_call.configpy.vars

\* C5: a call that follows a call that returned never fails at the
\* directory step, and the instance directory still exists after it.
C5_SecondCallFindsDirectory ==
  \A i \in 2..Len(history) :
    history[i - 1].outcome = "returned"
      => /\ ~(history[i].outcome = "raised" /\ history[i].stage = "mkdir")
         /\ ~history[i].created
         /\ fs.instance = "dir"

C5_Witness ==
  /\ Len(history) >= 2
  /\ history[1].outcome = "returned"
  /\ history[1].created
  /\ history[2].outcome = "returned"

\* C6: whenever create_app has returned an application the instance
\* directory exists; a call that found it absent leaves the filesystem
\* alone until the directory step, which creates it just before returning.
C6_ReturnedImpliesDirectory ==
  /\ result # None => fs.instance = "dir"
  /\ pc \in {"config", "register", "mkdir"} => fs = fs_at_call
  /\ pc = "return" =>
       /\ fs.instance = "dir"
       /\ fs = [fs_at_call EXCEPT !.instance = "dir"]
  /\ (result # None /\ Last.created) => fs_at_call.instance = "absent"

C6_Witness ==
  /\ result # None
  /\ Last.created
  /\ fs_at_call.instance = "absent"
  /\ fs.instance = "dir"

\* the literal text of a template, in order
TextOf(t) ==
  LET texts == SelectSeq(t, LAMBDA tok : tok.kind = "text")
  IN  [i \in 1..Len(texts) |-> texts[i].value]

\* C7: with views/index.html in place, every GET / on a returned
\* application is answered by the index handler with status 200 and a
\* non-empty body, the template rendered with no variables, however many
\* requests came before.
C7_IndexRendersTemplate ==
  (response # None /\ The(response).path = <<>> /\ fs.template # None)
    => LET r == The(response)
       IN  /\ r.endpoint = "views.index"
           /\ r.status = 200
           /\ r.error = "none"
           /\ r.body # <<>>
           /\ r.body = TextOf(The(fs.template))

C7_Witness ==
  /\ response # None
  /\ The(response).path = <<>>
  /\ The(response).status = 200
  /\ requests >= 2
  /\ fs.template = Some(<<Text, Var, Text>>)

\* C8 as stated: every GET to a path other than / is answered 404.
C8_EveryOtherPathNotFound ==
  (response # None /\ The(response).path # <<>>)
    => The(response).status = 404

\* C8 amended: every GET to a path other than / is answered 404, except
\* /static/<filename> naming an existing file of the static folder, which
\* the framework's own static route serves; the blueprint adds exactly the
\* route / and the factory adds no other route.
C8_OtherPathsNotFoundButStatic ==
  /\ (response # None /\ The(response).path # <<>>) =>
       LET r == The(response)
           file == /\ Len(r.path) = 2
                   /\ r.path[1] = "static"
                   /\ r.path[2] \in fs.static
       IN  /\ ~file => r.status = 404 /\ r.body = <<"Not Found">>
           /\ file => r.status = 200 /\ r.endpoint = "static"
  /\ result # None =>
       {x \in The(result).rules : x.endpoint # "static"}
         = {[prefix |-> <<>>, converter |-> "none",
             endpoint |-> "views.index"]}

C8_Witness ==
  /\ response # None
  /\ The(response).path = <<"about">>
  /\ The(response).status = 404
  /\ fs.static # {}

\* C9: without views/index.html, GET / ends in a server error: the index
\* handler lets TemplateNotFound through to the framework and no success
\* response is returned.
C9_MissingTemplateServerError ==
  (response # None /\ The(response).path = <<>> /\ fs.template = None)
    => LET r == The(response)
       IN  /\ r.endpoint = "views.index"
           /\ r.error = "TemplateNotFound"
           /\ r.status = 500
           /\ r.status # 200

C9_Witness ==
  /\ response # None
  /\ The(response).path = <<>>
  /\ fs.template = None
  /\ The(response).status = 500
  /\ ~The(response).propagated

\* C10: a malformed config.py (test_config absent) or a failing directory
\* step makes the call raise with no application returned; a call that
\* raised while loading the configuration left the filesystem unchanged.
C10_FailuresPropagate ==
  Finished =>
    LET cfgbad == /\ test_config = None
                  /\ fs_at_call.instance = "dir"
                  /\ fs_at_call.configpy.kind = "malformed"
        dirbad == \/ fs_at_call.instance = "file"
                  \/ /\ fs_at_call.instance = "absent"
                     /\ fs_at_call.parent # "writable"
    IN  /\ cfgbad => /\ Last.outcome = "raised"
                     /\ Last.stage = "config"
                     /\ Last.error = "SyntaxError"
                     /\ fs = fs_at_call
        /\ (~cfgbad /\ dirbad) => /\ Last.outcome = "raised"
                                  /\ Last.stage = "mkdir"
                                  /\ Last.error \in MkdirErrors
        /\ (~cfgbad /\ fs_at_call.instance = "absent"
              /\ fs_at_call.parent = "readonly")
             => Last.error = "PermissionError"
        /\ Last.outcome = "raised" => result = None /\ fs = fs_at_call
        /\ (~cfgbad /\ ~dirbad) => Last.outcome = "returned"

C10_Witness ==
  /\ Finished
  /\ Last.outcome = "raised"
  /\ Last.stage = "config"
  /\ Last.error = "SyntaxError"
  /\ Len(history) >= 2
  /\ history[1].outcome = "returned"
  /\ result = None

====
